---- MODULE Spec2Model ----
(***************************************************************************)
(* buildPrismaQuery (prisma-query-builder): the translation of a raw HTTP  *)
(* query map into {where, orderBy, meta}, phase by phase.                  *)
(*                                                                         *)
(* JavaScript values are tagged records [t |-> <typeof/kind>, v |-> ...].  *)
(* A string is the sequence of its characters, so that trim, split,        *)
(* toLowerCase and Number() are computed and not assumed.  Object keys     *)
(* (field names, query keys, operators) are atomic strings; an object is   *)
(* a function from its own keys to values.                                 *)
(***************************************************************************)
EXTENDS Integers, Sequences, FiniteSets, TLC

VARIABLES opts, pc, OR, ignoredSearchFields, filters, orderBy, result, error

vars == <<opts, pc, OR, ignoredSearchFields, filters, orderBy, result, error>>

(***************************************************************************)
(* Values                                                                  *)
(***************************************************************************)
Undef == [t |-> "undefined"]
Null == [t |-> "null"]
NaN == [t |-> "NaN"]
Str(s) == [t |-> "string", v |-> s]
Num(n) == [t |-> "number", v |-> n]
Bool(b) == [t |-> "boolean", v |-> b]
DateVal(y) == [t |-> "date", v |-> y]
InvalidDate == [t |-> "invalidDate"]
Arr(a) == [t |-> "array", v |-> a]
Obj(f) == [t |-> "object", v |-> f]
EmptyObj == Obj(<<>>)

\* obj[k], undefined when k is no own key
Get(o, k) == IF o.t = "object" /\ k \in DOMAIN o.v THEN o.v[k] ELSE Undef

\* Object.keys(v)
Keys(v) == IF v.t = "object" THEN DOMAIN v.v ELSE {}

\* JavaScript truthiness
Truthy(v) ==
    CASE v.t \in {"undefined", "null", "NaN"} -> FALSE
      [] v.t = "string" -> v.v # <<>>
      [] v.t = "number" -> v.v # 0
      [] v.t = "boolean" -> v.v
      [] OTHER -> TRUE

(***************************************************************************)
(* Strings                                                                 *)
(***************************************************************************)
IsSpace(c) == c = " "

RECURSIVE trimStart(_)
trimStart(s) == IF s # <<>> /\ IsSpace(Head(s)) THEN trimStart(Tail(s)) ELSE s

RECURSIVE trimEnd(_)
trimEnd(s) ==
    IF s # <<>> /\ IsSpace(s[Len(s)]) THEN trimEnd(SubSeq(s, 1, Len(s) - 1)) ELSE s

trim(s) == trimEnd(trimStart(s))

toLowerCaseChar(c) ==
    CASE c = "N" -> "n" [] c = "U" -> "u" [] c = "L" -> "l"
      [] c = "D" -> "d" [] c = "E" -> "e" [] c = "S" -> "s" [] c = "C" -> "c"
      [] c = "T" -> "t" [] c = "R" -> "r"
      [] OTHER -> c

toLowerCase(s) == [i \in 1..Len(s) |-> toLowerCaseChar(s[i])]

\* s.split(sep) for a one-character separator: always at least one part
RECURSIVE split(_, _)
split(s, sep) ==
    IF \A i \in 1..Len(s) : s[i] # sep
    THEN <<s>>
    ELSE LET i == CHOOSE j \in 1..Len(s) :
                      s[j] = sep /\ \A k \in 1..(j - 1) : s[k] # sep
         IN <<SubSeq(s, 1, i - 1)>> \o split(SubSeq(s, i + 1, Len(s)), sep)

includes(s, c) == \E i \in 1..Len(s) : s[i] = c

\* the atomic string of a character sequence (used as an object key)
RECURSIVE Join(_)
Join(s) == IF s = <<>> THEN "" ELSE Head(s) \o Join(Tail(s))

\* Array.prototype.join(",") of an array of strings; String(array)
RECURSIVE joinComma(_)
joinComma(a) ==
    IF a = <<>> THEN <<>>
    ELSE IF Len(a) = 1 THEN a[1].v
    ELSE a[1].v \o <<",">> \o joinComma(Tail(a))

\* String(v) for the raw values of a query map
JSString(v) == IF v.t = "array" THEN joinComma(v.v) ELSE v.v

IsDigit(c) == c \in {"0", "1", "2", "3", "4", "5", "6", "7", "8", "9"}

DigitVal(c) ==
    CASE c = "0" -> 0 [] c = "1" -> 1 [] c = "2" -> 2 [] c = "3" -> 3
      [] c = "4" -> 4 [] c = "5" -> 5 [] c = "6" -> 6 [] c = "7" -> 7
      [] c = "8" -> 8 [] c = "9" -> 9

RECURSIVE DecimalVal(_)
DecimalVal(s) ==
    IF s = <<>> THEN 0 ELSE 10 * DecimalVal(SubSeq(s, 1, Len(s) - 1)) + DigitVal(s[Len(s)])

\* Number(v): whitespace is trimmed, the empty string is 0, a decimal integer
\* literal (optionally signed) is its value, anything else is NaN.
Number(v) ==
    LET s == trim(JSString(v))
        body == IF s # <<>> /\ Head(s) \in {"-", "+"} THEN Tail(s) ELSE s
    IN IF s = <<>> THEN Num(0)
       ELSE IF body # <<>> /\ \A i \in 1..Len(body) : IsDigit(body[i])
       THEN Num(IF Head(s) = "-" THEN 0 - DecimalVal(body) ELSE DecimalVal(body))
       ELSE NaN

\* new Date(v): a four-digit ISO year is a valid date; the other strings of the
\* model's pools (words, lists, the empty string) are not dates.
NewDate(v) ==
    LET s == JSString(v)
    IN IF Len(s) = 4 /\ \A i \in 1..4 : IsDigit(s[i])
       THEN DateVal(DecimalVal(s))
       ELSE InvalidDate

(***************************************************************************)
(* Errors and results of operations that may throw                         *)
(***************************************************************************)
NoError == [kind |-> "none"]
TypeError == [kind |-> "TypeError"]
NoDetails == [t |-> "undefined"]
QueryBuilderError(code, details) ==
    [kind |-> "QueryBuilderError", code |-> code, details |-> details]

Ok(v) == [err |-> NoError, val |-> v]
Throw(e) == [err |-> e, val |-> Undef]

(***************************************************************************)
(* Helpers                                                                 *)
(***************************************************************************)
isPlainObject(v) == v.t \in {"object", "date"}

\* isNullString comparing the trimmed string as written, without case-folding
isNullStringCased(v) ==
    v.t = "string" /\ trim(v.v) = <<"n", "u", "l", "l">>

isNullString(v) ==
    v.t = "string" /\ toLowerCase(trim(v.v)) = <<"n", "u", "l", "l">>

\* {...v}: the own enumerable properties of v
IndexKey(i) == ToString(i)

Spread(v) ==
    CASE v.t = "object" -> v
      [] v.t = "string" ->
            Obj([k \in {IndexKey(i - 1) : i \in 1..Len(v.v)} |->
                    Str(<<v.v[CHOOSE i \in 1..Len(v.v) : IndexKey(i - 1) = k]>>)])
      [] v.t = "array" ->
            Obj([k \in {IndexKey(i - 1) : i \in 1..Len(v.v)} |->
                    v.v[CHOOSE i \in 1..Len(v.v) : IndexKey(i - 1) = k]])
      [] OTHER -> EmptyObj

RECURSIVE buildNestedParts(_, _)
buildNestedParts(parts, obj) ==
    IF parts = <<>> THEN obj
    ELSE buildNestedParts(SubSeq(parts, 1, Len(parts) - 1),
                          Obj(Join(parts[Len(parts)]) :> obj))

buildNestedObject(path, field, value) ==
    buildNestedParts(split(path, "."), Obj(field :> value))

RECURSIVE deepMerge(_, _)
deepMerge(target, source) ==
    LET ks == Keys(source)
        merged(k) ==
            IF isPlainObject(Get(source, k)) /\ isPlainObject(Get(target, k))
            THEN deepMerge(Spread(Get(target, k)), Get(source, k))
            ELSE Get(source, k)
    IN Obj([k \in Keys(target) \cup ks |->
                IF k \in ks THEN merged(k) ELSE Get(target, k)])

\* parseSort(sort): a falsy sort gives no item; sort.split is not callable on
\* an array, which ends the call with a TypeError.
Desc == <<"d", "e", "s", "c">>
Asc == <<"a", "s", "c">>

\* parseSortItem comparing the order as written, without trimming it
parseSortItemUntrimmed(seg) ==
    LET parts == split(seg, ":")
        key == trim(parts[1])
        order == IF Len(parts) >= 2 THEN Str(parts[2]) ELSE Undef
    IN [key |-> Join(key), order |-> IF order = Str(Desc) THEN Str(Desc) ELSE Str(Asc)]

parseSortItem(seg) ==
    LET parts == split(seg, ":")
        key == trim(parts[1])
        order == IF Len(parts) >= 2 THEN Str(trim(parts[2])) ELSE Undef
    IN [key |-> Join(key), order |-> IF order = Str(Desc) THEN Str(Desc) ELSE Str(Asc)]

parseSort(sort) ==
    IF ~Truthy(sort) THEN Ok(<<>>)
    ELSE IF sort.t # "string" THEN Throw(TypeError)
    ELSE LET segs == split(sort.v, ",")
         IN Ok([i \in 1..Len(segs) |-> parseSortItem(segs[i])])

\* Array.prototype.includes of an array of strings
arrayIncludes(a, v) == \E i \in 1..Len(a.v) : a.v[i] = v

True == <<"t", "r", "u", "e">>
False == <<"f", "a", "l", "s", "e">>

parseSearchValue(raw, field) ==
    CASE field.type = "number" ->
            LET n == Number(Str(raw))
            IN IF n = NaN
               THEN Throw(QueryBuilderError("INVALID_SEARCH_NUMBER", NoDetails))
               ELSE Ok(n)
      [] field.type = "boolean" ->
            IF raw = True \/ raw = <<"1">> THEN Ok(Bool(TRUE))
            ELSE IF raw = False \/ raw = <<"0">> THEN Ok(Bool(FALSE))
            ELSE Throw(QueryBuilderError("INVALID_SEARCH_BOOLEAN", NoDetails))
      [] field.type = "enum" ->
            IF Truthy(field.enumValues) /\ ~arrayIncludes(field.enumValues, Str(raw))
            THEN Throw(QueryBuilderError("INVALID_SEARCH_ENUM",
                                         Obj("allowed" :> field.enumValues)))
            ELSE Ok(Str(raw))
      [] OTHER -> Ok(Str(raw))

\* opts.dateParser is left undefined: dates go through new Date(raw)
parseFilterValue(raw, field) ==
    IF isNullString(raw) THEN Ok(Null)
    ELSE CASE field.type = "number" -> Ok(Number(raw))
           [] field.type = "boolean" ->
                 IF raw.t = "boolean" THEN Ok(raw)
                 ELSE IF raw = Str(<<"1">>) \/ raw = Str(<<"0">>) THEN Ok(Bool(raw = Str(<<"1">>)))
                 ELSE IF raw = Str(True) \/ raw = Str(False) THEN Ok(Bool(raw = Str(True)))
                 ELSE Throw(QueryBuilderError("INVALID_BOOLEAN", NoDetails))
           [] field.type = "date" ->
                 LET d == NewDate(raw)
                 IN IF d = InvalidDate
                    THEN Throw(QueryBuilderError("INVALID_DATE", NoDetails))
                    ELSE Ok(d)
           [] field.type = "enum" ->
                 IF Truthy(field.enumValues) /\ ~arrayIncludes(field.enumValues, raw)
                 THEN Throw(QueryBuilderError("INVALID_ENUM",
                                              Obj("allowed" :> field.enumValues)))
                 ELSE Ok(raw)
           [] OTHER -> Ok(raw)

(***************************************************************************)
(* buildPrismaQuery, phase by phase.  o is the options bag:                *)
(*   query            Obj: query key -> Str(chars) | Arr(<<Str, ...>>)     *)
(*   searchFields     <<[field, model, operator, type, enumValues]>>       *)
(*   filterFields     <<[key, field, model, type, enumValues]>>            *)
(*   sortFields       <<[key, field, model]>>                              *)
(*   defaultSort      Undef | [key, order]                                 *)
(*   softDelete       Undef | [field, value]                               *)
(*   strict           BOOLEAN                                              *)
(*   allowedQueryKeys <<key, ...>>                                         *)
(* An absent model, operator or type is the empty string (falsy, as        *)
(* undefined is); an absent enumValues is Undef.                           *)
(***************************************************************************)
Range(f) == {f[i] : i \in DOMAIN f}

\* allowedKeys without the _max range keys
allowedKeysNoMax(o) ==
    {"search", "sort"}
        \cup {f.key : f \in Range(o.filterFields)}
        \cup {f.key \o "_min" : f \in Range(o.filterFields)}
        \cup Range(o.allowedQueryKeys)

allowedKeys(o) ==
    {"search", "sort"}
        \cup {f.key : f \in Range(o.filterFields)}
        \cup {f.key \o "_min" : f \in Range(o.filterFields)}
        \cup {f.key \o "_max" : f \in Range(o.filterFields)}
        \cup Range(o.allowedQueryKeys)

\* STRICT QUERY KEY VALIDATION: the error thrown, NoError when none
strictKeyValidation(o) ==
    IF o.strict /\ \E key \in Keys(o.query) : key \notin allowedKeys(o)
    THEN QueryBuilderError("INVALID_FILTER_KEY", [allowed |-> allowedKeys(o)])
    ELSE NoError

allowedOperators == {"contains", "startsWith", "endsWith", "equals"}

Insensitive == Str(<<"i", "n", "s", "e", "n", "s", "i", "t", "i", "v", "e">>)

\* { [field]: value }, nested under the relation path when model is set
fieldObject(model, field, value) ==
    IF model # <<>> THEN buildNestedObject(model, field, value)
    ELSE Obj(field :> value)

\* the body of `for (const s of searchFields)` from field i on; acc is
\* [OR, ignored]; the result adds err, the error thrown out of the loop
RECURSIVE searchLoop(_, _, _, _)
searchLoop(o, q, i, acc) ==
    IF i > Len(o.searchFields) THEN [err |-> NoError, OR |-> acc.OR, ignored |-> acc.ignored]
    ELSE
      LET s == o.searchFields[i]
          typed == s.type # "" /\ s.type # "string"
          parsed == parseSearchValue(q, s)
          operator == IF s.operator = "" THEN "contains" ELSE s.operator
          value == IF operator = "equals" THEN parsed.val
                   ELSE Obj(("mode" :> Insensitive) @@ (operator :> parsed.val))
      IN IF o.strict /\ typed /\ s.operator # ""
         THEN [err |-> QueryBuilderError("INVALID_SEARCH_OPERATOR_USAGE", NoDetails),
               OR |-> acc.OR, ignored |-> acc.ignored]
         ELSE IF parsed.err # NoError
         THEN searchLoop(o, q, i + 1,
                  [OR |-> acc.OR,
                   ignored |-> Append(acc.ignored,
                       [field |-> s.field, value |-> q, reason |-> parsed.err.code])])
         ELSE IF typed
         THEN searchLoop(o, q, i + 1,
                  [OR |-> Append(acc.OR, fieldObject(s.model, s.field, parsed.val)),
                   ignored |-> acc.ignored])
         ELSE IF o.strict /\ operator \notin allowedOperators
         THEN [err |-> QueryBuilderError("INVALID_SEARCH_OPERATOR", NoDetails),
               OR |-> acc.OR, ignored |-> acc.ignored]
         ELSE searchLoop(o, q, i + 1,
                  [OR |-> Append(acc.OR, fieldObject(s.model, s.field, value)),
                   ignored |-> acc.ignored])

\* searchPhase without the failure raised when every field was ignored
searchPhaseEmptyGroup(o) ==
    LET search == Get(o.query, "search")
        q == trim(JSString(search))
        none == [err |-> NoError, OR |-> <<>>, ignored |-> <<>>]
        r == searchLoop(o, q, 1, [OR |-> <<>>, ignored |-> <<>>])
    IN IF ~(Truthy(search) /\ Len(o.searchFields) # 0) THEN none
       ELSE IF q = <<>> THEN none
       ELSE r

\* SEARCH: [err, OR, ignored]
searchPhase(o) ==
    LET search == Get(o.query, "search")
        q == trim(JSString(search))
        none == [err |-> NoError, OR |-> <<>>, ignored |-> <<>>]
        r == searchLoop(o, q, 1, [OR |-> <<>>, ignored |-> <<>>])
    IN IF ~(Truthy(search) /\ Len(o.searchFields) # 0) THEN none
       ELSE IF q = <<>> THEN none
       ELSE IF r.err # NoError THEN r
       ELSE IF Len(r.OR) = 0 /\ Len(r.ignored) # 0
       THEN [err |-> QueryBuilderError("INVALID_SEARCH_VALUE",
                                       [ignoredSearchFields |-> r.ignored]),
             OR |-> r.OR, ignored |-> r.ignored]
       ELSE r

\* { [f.field]: { ...(filters[f.field] || {}), [bound]: val } }, or the nested
\* object when the filter has a relation path
rangeFragment(f, flt, bound, val) ==
    IF f.model # <<>> THEN buildNestedObject(f.model, f.field, Obj(bound :> val))
    ELSE LET cur == Get(flt, f.field)
             base == IF Truthy(cur) THEN Spread(cur) ELSE EmptyObj
         IN Obj(f.field :> Obj((bound :> val) @@ base.v))

\* exactValue.split(",").map(v => parseFilterValue(v.trim(), f)): the first
\* part that throws ends the map
RECURSIVE parseParts(_, _, _, _)
parseParts(parts, f, i, acc) ==
    IF i > Len(parts) THEN Ok(Arr(acc))
    ELSE LET p == parseFilterValue(Str(trim(parts[i])), f)
         IN IF p.err # NoError THEN p
            ELSE parseParts(parts, f, i + 1, Append(acc, p.val))

\* strict && exactValue !== undefined && (minValue !== undefined || maxValue !== undefined)
rangeConflict(strict, exactValue, minValue, maxValue) ==
    strict /\ exactValue # Undef /\ (minValue # Undef \/ maxValue # Undef)

\* minValue !== undefined || maxValue !== undefined: the range branch, which
\* ends the iteration with `continue`
rangeUsed(minValue, maxValue) == minValue # Undef \/ maxValue # Undef

\* exactValue !== undefined && exactValue !== "" && exactValue !== null
exactUsed(exactValue) ==
    exactValue # Undef /\ exactValue # Str(<<>>) /\ exactValue # Null

\* one iteration of `for (const f of filterFields)`: [err, filters]
filterStep(o, f, flt) ==
    LET exactValue == Get(o.query, f.key)
        minValue == Get(o.query, f.key \o "_min")
        maxValue == Get(o.query, f.key \o "_max")
        min == parseFilterValue(minValue, f)
        afterMin == IF minValue # Undef
                    THEN deepMerge(flt, rangeFragment(f, flt, "gte", min.val))
                    ELSE flt
        max == parseFilterValue(maxValue, f)
        afterMax == IF maxValue # Undef
                    THEN deepMerge(afterMin, rangeFragment(f, afterMin, "lte", max.val))
                    ELSE afterMin
        list == parseParts(split(exactValue.v, ","), f, 1, <<>>)
        single == parseFilterValue(exactValue, f)
    IN IF rangeConflict(o.strict, exactValue, minValue, maxValue)
       THEN [err |-> QueryBuilderError("INVALID_RANGE_USAGE", NoDetails), filters |-> flt]
       ELSE IF rangeUsed(minValue, maxValue)
       THEN IF minValue # Undef /\ min.err # NoError
            THEN [err |-> min.err, filters |-> flt]
            ELSE IF maxValue # Undef /\ max.err # NoError
            THEN [err |-> max.err, filters |-> afterMin]
            ELSE [err |-> NoError, filters |-> afterMax]
       ELSE IF exactUsed(exactValue)
       THEN IF exactValue.t = "string" /\ includes(exactValue.v, ",")
            THEN IF list.err # NoError
                 THEN [err |-> list.err, filters |-> flt]
                 ELSE [err |-> NoError,
                       filters |-> deepMerge(flt,
                           fieldObject(f.model, f.field, Obj("in" :> list.val)))]
            ELSE IF single.err # NoError
                 THEN [err |-> single.err, filters |-> flt]
                 ELSE [err |-> NoError,
                       filters |-> deepMerge(flt,
                           fieldObject(f.model, f.field, single.val))]
       ELSE [err |-> NoError, filters |-> flt]

RECURSIVE filterLoop(_, _, _)
filterLoop(o, i, flt) ==
    IF i > Len(o.filterFields) THEN [err |-> NoError, filters |-> flt]
    ELSE LET r == filterStep(o, o.filterFields[i], flt)
         IN IF r.err # NoError THEN r ELSE filterLoop(o, i + 1, r.filters)

\* FILTERS: [err, filters]
filterPhase(o) == filterLoop(o, 1, EmptyObj)

\* findSortField returning the last spec registered under the key
findSortFieldLast(sortFields, key) ==
    IF \E i \in 1..Len(sortFields) : sortFields[i].key = key
    THEN sortFields[CHOOSE i \in 1..Len(sortFields) :
                        /\ sortFields[i].key = key
                        /\ \A j \in (i + 1)..Len(sortFields) : sortFields[j].key # key]
    ELSE Undef

\* sortFields.find(sf => sf.key === key): Undef when there is none
findSortField(sortFields, key) ==
    IF \E i \in 1..Len(sortFields) : sortFields[i].key = key
    THEN sortFields[CHOOSE i \in 1..Len(sortFields) :
                        /\ sortFields[i].key = key
                        /\ \A j \in 1..(i - 1) : sortFields[j].key # key]
    ELSE Undef

RECURSIVE sortLoop(_, _, _, _)
sortLoop(o, finalSort, i, acc) ==
    IF i > Len(finalSort) THEN [err |-> NoError, orderBy |-> acc]
    ELSE LET s == finalSort[i]
             cfg == findSortField(o.sortFields, s.key)
         IN IF cfg = Undef
            THEN [err |-> QueryBuilderError("INVALID_SORT_KEY",
                              [allowed |-> [j \in 1..Len(o.sortFields) |-> o.sortFields[j].key]]),
                  orderBy |-> acc]
            ELSE sortLoop(o, finalSort, i + 1,
                          Append(acc, fieldObject(cfg.model, cfg.field, s.order)))

\* SORT: [err, orderBy]
sortPhase(o) ==
    LET sortItems == parseSort(Get(o.query, "sort"))
        finalSort == IF Len(sortItems.val) > 0 THEN sortItems.val
                     ELSE IF o.defaultSort # Undef THEN <<o.defaultSort>>
                     ELSE <<>>
    IN IF sortItems.err # NoError THEN [err |-> sortItems.err, orderBy |-> <<>>]
       ELSE sortLoop(o, finalSort, 1, <<>>)

\* andList with the soft-delete fragment pushed after the filter tree
andListFiltersFirst(o, flt, or) ==
    (IF Cardinality(Keys(flt)) # 0 THEN <<flt>> ELSE <<>>)
        \o (IF o.softDelete # Undef
            THEN <<Obj(o.softDelete.field :> o.softDelete.value)>>
            ELSE <<>>)
        \o (IF Len(or) # 0 THEN <<Obj("OR" :> Arr(or))>> ELSE <<>>)

\* the AND list: soft delete first, then the filter tree, then the OR group
andList(o, flt, or) ==
    (IF o.softDelete # Undef
     THEN <<Obj(o.softDelete.field :> o.softDelete.value)>>
     ELSE <<>>)
        \o (IF Cardinality(Keys(flt)) # 0 THEN <<flt>> ELSE <<>>)
        \o (IF Len(or) # 0 THEN <<Obj("OR" :> Arr(or))>> ELSE <<>>)

\* WHERE COMPOSITION: the returned {where, orderBy, meta}
whereComposition(o, flt, or, ord, ignored) ==
    LET AND == andList(o, flt, or)
    IN [where |-> IF Len(AND) # 0 THEN Obj("AND" :> Arr(AND)) ELSE EmptyObj,
        orderBy |-> ord,
        meta |-> IF Len(ignored) # 0
                 THEN Obj("ignoredSearchFields" :> Arr(ignored))
                 ELSE Undef]

\* the whole call as a function of its options: [error, result]
buildPrismaQuery(o) ==
    LET k == strictKeyValidation(o)
        s == searchPhase(o)
        f == filterPhase(o)
        so == sortPhase(o)
    IN IF k # NoError THEN [error |-> k, result |-> Undef]
       ELSE IF s.err # NoError THEN [error |-> s.err, result |-> Undef]
       ELSE IF f.err # NoError THEN [error |-> f.err, result |-> Undef]
       ELSE IF so.err # NoError THEN [error |-> so.err, result |-> Undef]
       ELSE [error |-> NoError,
             result |-> whereComposition(o, f.filters, s.OR, so.orderBy, s.ignored)]

(***************************************************************************)
(* The call as a state machine: pc is the section of buildPrismaQuery      *)
(* about to run; a throw ends the call in "failed" with the error.         *)
(***************************************************************************)
\* NextPhase with the sort section placed before the filters
NextPhaseSortFirst(p) ==
    CASE p = "strict" -> "search"
      [] p = "search" -> "sort"
      [] p = "sort" -> "filters"
      [] p = "filters" -> "where"
      [] p = "where" -> "done"

\* the order of the sections in the function body
NextPhase(p) ==
    CASE p = "strict" -> "search"
      [] p = "search" -> "filters"
      [] p = "filters" -> "sort"
      [] p = "sort" -> "where"
      [] p = "where" -> "done"

StrictValidation ==
    /\ pc = "strict"
    /\ LET e == strictKeyValidation(opts)
       IN /\ error' = e
          /\ pc' = IF e # NoError THEN "failed" ELSE NextPhase(pc)
    /\ UNCHANGED <<opts, OR, ignoredSearchFields, filters, orderBy, result>>

Search ==
    /\ pc = "search"
    /\ LET r == searchPhase(opts)
       IN /\ error' = r.err
          /\ OR' = r.OR
          /\ ignoredSearchFields' = r.ignored
          /\ pc' = IF r.err # NoError THEN "failed" ELSE NextPhase(pc)
    /\ UNCHANGED <<opts, filters, orderBy, result>>

Filters ==
    /\ pc = "filters"
    /\ LET r == filterPhase(opts)
       IN /\ error' = r.err
          /\ filters' = r.filters
          /\ pc' = IF r.err # NoError THEN "failed" ELSE NextPhase(pc)
    /\ UNCHANGED <<opts, OR, ignoredSearchFields, orderBy, result>>

Sort ==
    /\ pc = "sort"
    /\ LET r == sortPhase(opts)
       IN /\ error' = r.err
          /\ orderBy' = r.orderBy
          /\ pc' = IF r.err # NoError THEN "failed" ELSE NextPhase(pc)
    /\ UNCHANGED <<opts, OR, ignoredSearchFields, filters, result>>

Where ==
    /\ pc = "where"
    /\ result' = whereComposition(opts, filters, OR, orderBy, ignoredSearchFields)
    /\ pc' = NextPhase(pc)
    /\ UNCHANGED <<opts, OR, ignoredSearchFields, filters, orderBy, error>>

Next == StrictValidation \/ Search \/ Filters \/ Sort \/ Where

(***************************************************************************)
(* Inputs: the configurations and query maps the call is run on            *)
(***************************************************************************)
MaxSearchFields == 2
MaxFilterFields == 2
MaxSortFields == 2
MaxSortItems == 2

\* the lists of at most n elements of S, each element listed once
SeqsUpTo(S, n) ==
    {s \in UNION {[1..k -> S] : k \in 0..n} : \A i, j \in DOMAIN s : i # j => s[i] # s[j]}

Author == <<"a", "u", "t", "h", "o", "r">>
AuthorProfile == <<"a", "u", "t", "h", "o", "r", ".", "p", "r", "o", "f", "i", "l", "e">>
Admin == <<"a", "d", "m", "i", "n">>
User == <<"u", "s", "e", "r">>
Roles == Arr(<<Str(Admin), Str(User)>>)

SearchField(field, model, operator, type, enumValues) ==
    [field |-> field, model |-> model, operator |-> operator, type |-> type,
     enumValues |-> enumValues]

SearchFieldPool ==
    { SearchField("name", <<>>, "", "", Undef),
      SearchField("title", Author, "startsWith", "string", Undef),
      SearchField("code", <<>>, "equals", "", Undef),
      SearchField("age", AuthorProfile, "", "number", Undef),
      SearchField("active", <<>>, "", "boolean", Undef),
      SearchField("role", <<>>, "", "enum", Roles),
      SearchField("tag", <<>>, "", "enum", Undef),
      SearchField("score", <<>>, "equals", "number", Undef),
      SearchField("nick", <<>>, "like", "", Undef) }

SearchValues ==
    { Undef, Str(<<>>), Str(<<" ", " ">>), Str(<<"a", "b", "c">>), Str(<<" ", "5", " ">>), Str(<<"t", "r", "u", "e">>), Str(<<"a", "d", "m", "i", "n">>),
      Arr(<<>>), Arr(<<Str(<<"a">>), Str(<<"b">>)>>) }

FilterField(key, field, model, type, enumValues) ==
    [key |-> key, field |-> field, model |-> model, type |-> type,
     enumValues |-> enumValues]

FF_age == FilterField("age", "age", <<>>, "number", Undef)
FF_active == FilterField("active", "isActive", <<>>, "boolean", Undef)
FF_created == FilterField("created", "createdAt", <<>>, "date", Undef)
FF_role == FilterField("role", "role", <<>>, "enum", Roles)
FF_name == FilterField("name", "name", <<>>, "", Undef)
FF_authorAge == FilterField("authorAge", "age", AuthorProfile, "number", Undef)
\* a second spec registered under the key of FF_age
FF_age2 == FilterField("age", "years", <<>>, "number", Undef)

FilterFieldPool == {FF_age, FF_active, FF_created, FF_role, FF_name, FF_authorAge, FF_age2}

FilterKeys == {f.key : f \in FilterFieldPool}

\* raw exact values and raw range bounds tried on each filter key
ExactValues(key) ==
    CASE key \in {"age", "authorAge"} ->
            <<Str(<<"5">>), Str(<<"1", ",", "2", ",", "3">>), Str(<<" ", "N", "u", "l", "l", " ">>), Str(<<"7", ",", " ", "n", "u", "l", "l", ",", "x">>), Arr(<<Str(<<"5">>)>>), Str(<<>>)>>
      [] key = "active" ->
            <<Str(<<"t", "r", "u", "e">>), Str(<<"1", ",", " ", "f", "a", "l", "s", "e">>), Str(<<"N", "U", "L", "L">>), Str(<<"m", "a", "y", "b", "e">>), Arr(<<Str(<<"t", "r", "u", "e">>)>>)>>
      [] key = "created" ->
            <<Str(<<"2", "0", "2", "0">>), Str(<<"2", "0", "2", "0", ",", "2", "0", "2", "1">>), Str(<<"n", "u", "l", "l">>), Str(<<"s", "o", "o", "n">>), Str(<<"2", "0", "2", "0", ",", " ", "n", "u", "l", "l">>)>>
      [] key = "role" ->
            <<Str(<<"a", "d", "m", "i", "n">>), Str(<<"a", "d", "m", "i", "n", ",", " ", "u", "s", "e", "r">>), Str(<<"u", "s", "e", "r", ",", "N", "U", "L", "L">>), Str(<<"r", "o", "o", "t">>), Arr(<<Str(<<"a", "d", "m", "i", "n">>)>>)>>
      [] key = "name" ->
            <<Str(<<"b", "o", "b">>), Str(<<"a", "l", ",", "b", "o", "b", " ">>), Str(<<"n", "u", "L", "L">>), Str(<<" ", "b", "o", "b">>), Arr(<<Str(<<"a", "l">>), Str(<<"b", "o", "b">>)>>)>>

BoundValues(key) ==
    CASE key \in {"age", "authorAge"} -> <<Str(<<"5">>), Str(<<"1", "0">>), Str(<<"n", "u", "l", "l">>)>>
      [] key = "active" -> <<Str(<<"t", "r", "u", "e">>), Str(<<"0">>), Str(<<"m", "a", "y", "b", "e">>)>>
      [] key = "created" -> <<Str(<<"2", "0", "2", "0">>), Str(<<"2", "0", "2", "1">>), Str(<<"s", "o", "o", "n">>)>>
      [] key = "role" -> <<Str(<<"a", "d", "m", "i", "n">>), Str(<<"u", "s", "e", "r">>), Str(<<"r", "o", "o", "t">>)>>
      [] key = "name" -> <<Str(<<"a", "l">>), Str(<<"b", "o", "b">>), Str(<<"n", "u", "l", "l">>)>>

\* the query maps that address one filter key
KeyQueries(key) ==
    LET E == ExactValues(key)
        B == BoundValues(key)
        kmin == key \o "_min"
        kmax == key \o "_max"
    IN    {key :> E[i] : i \in DOMAIN E}
     \cup {kmin :> B[i] : i \in DOMAIN B}
     \cup {kmax :> B[i] : i \in DOMAIN B}
     \cup {(kmin :> B[i]) @@ (kmax :> B[j]) : i \in DOMAIN B, j \in DOMAIN B}
     \cup {(key :> E[1]) @@ (kmin :> B[i]) : i \in DOMAIN B}
     \cup {(key :> E[1]) @@ (kmax :> B[i]) : i \in DOMAIN B}
     \cup {(key :> E[1]) @@ (kmin :> B[1]) @@ (kmax :> B[2])}

\* two keys at once, each valid or invalid
TwoKeyQueries ==
    { ("age" :> a) @@ ("active" :> b) :
        a \in {Str(<<"5">>), Str(<<"a", "b", "c">>)}, b \in {Str(<<"t", "r", "u", "e">>), Str(<<"m", "a", "y", "b", "e">>)} }
    \cup { ("role" :> a) @@ ("created_min" :> b) @@ ("created" :> Str(<<"2", "0", "2", "0">>)) :
        a \in {Str(<<"u", "s", "e", "r">>), Str(<<"r", "o", "o", "t">>)}, b \in {Str(<<"2", "0", "2", "1">>), Str(<<"s", "o", "o", "n">>)} }

FilterQueries == {<<>>} \cup UNION {KeyQueries(k) : k \in FilterKeys} \cup TwoKeyQueries

SortField(key, field, model) == [key |-> key, field |-> field, model |-> model]

SO_name == SortField("name", "name", <<>>)
SO_age == SortField("age", "age", AuthorProfile)
\* a second spec registered under the key of SO_name
SO_name2 == SortField("name", "fullName", <<>>)

SortFieldPool == {SO_name, SO_age, SO_name2}

SortSegments ==
    { <<"n", "a", "m", "e">>, <<"n", "a", "m", "e", ":", "d", "e", "s", "c">>, <<" ", "a", "g", "e", " ", ":", " ", "d", "e", "s", "c", " ">>, <<"a", "g", "e", ":", "D", "E", "S", "C">>, <<"n", "a", "m", "e", ":", "d", "e", "s", "c", ":", "x">>, <<"z", "i", "p", ":", "d", "e", "s", "c">>, <<>> }

RECURSIVE joinSegments(_)
joinSegments(segs) ==
    IF Len(segs) = 1 THEN segs[1]
    ELSE segs[1] \o <<",">> \o joinSegments(Tail(segs))

SortValues ==
    { Undef, Arr(<<>>), Arr(<<Str(<<"n", "a", "m", "e">>), Str(<<"a", "g", "e">>)>>) }
    \cup { Str(joinSegments(segs)) : segs \in SeqsUpTo(SortSegments, MaxSortItems) \ {<<>>} }

DefaultSorts ==
    { Undef, [key |-> "name", order |-> Str(Desc)], [key |-> "zip", order |-> Str(Asc)] }

SoftDeletes == { Undef, [field |-> "deletedAt", value |-> Null] }

Options(query, search, filter, sort, defaultSort, softDelete, strict, allowed) ==
    [query |-> Obj(query), searchFields |-> search, filterFields |-> filter,
     sortFields |-> sort, defaultSort |-> defaultSort, softDelete |-> softDelete,
     strict |-> strict, allowedQueryKeys |-> allowed]

\* a query map with key k set to v, or left out when v is undefined
With(k, v) == IF v = Undef THEN <<>> ELSE k :> v

\* what surrounds the part of the input a family varies
Bg0 ==
    [query |-> <<>>, searchFields |-> <<>>, filterFields |-> <<>>, sortFields |-> <<>>,
     defaultSort |-> Undef, softDelete |-> Undef, allowedQueryKeys |-> <<>>]

Bg1 ==
    [query |-> [search |-> Str(<<"b", "o", "b">>), age |-> Str(<<"5">>), sort |-> Str(<<"n", "a", "m", "e", ":", "d", "e", "s", "c">>),
                page |-> Str(<<"2">>)],
     searchFields |-> <<SearchField("name", <<>>, "", "", Undef)>>,
     filterFields |-> <<FF_age>>,
     sortFields |-> <<SO_name>>,
     defaultSort |-> [key |-> "name", order |-> Str(Desc)],
     softDelete |-> [field |-> "deletedAt", value |-> Null],
     allowedQueryKeys |-> <<"page">>]

Without(q, keys) == [k \in (DOMAIN q) \ keys |-> q[k]]

Start(o) ==
    /\ opts = o
    /\ pc = "strict"
    /\ OR = <<>>
    /\ ignoredSearchFields = <<>>
    /\ filters = EmptyObj
    /\ orderBy = <<>>
    /\ result = Undef
    /\ error = NoError

\* search: every list of search fields against every search value
InitSearch ==
    \E sf \in SeqsUpTo(SearchFieldPool, MaxSearchFields), sv \in SearchValues,
       strict \in BOOLEAN, bg \in {Bg0, Bg1} :
        Start(Options(With("search", sv) @@ Without(bg.query, {"search"}), sf,
                      bg.filterFields, bg.sortFields, bg.defaultSort, bg.softDelete,
                      strict, bg.allowedQueryKeys))

\* filters: every list of filter fields against the filter query maps
InitFilter ==
    \E ff \in SeqsUpTo(FilterFieldPool, MaxFilterFields), q \in FilterQueries,
       strict \in BOOLEAN :
        Start(Options(q, <<>>, ff, <<>>, Undef, Undef, strict, <<>>))

\* sort: every list of sort fields against the sort values and default sorts
InitSort ==
    \E sf \in SeqsUpTo(SortFieldPool, MaxSortFields), sv \in SortValues,
       ds \in DefaultSorts, strict \in BOOLEAN, bg \in {Bg0, Bg1} :
        Start(Options(With("sort", sv) @@ Without(bg.query, {"sort"}), bg.searchFields,
                      bg.filterFields, sf, ds, bg.softDelete, strict,
                      bg.allowedQueryKeys))

\* all phases together: one case of each phase's outcomes, and extra query keys
CrossSearch ==
    { [fields |-> <<>>, query |-> <<>>],
      [fields |-> <<SearchField("name", <<>>, "", "", Undef)>>, query |-> "search" :> Str(<<"a", "b", "c">>)],
      [fields |-> <<SearchField("name", <<>>, "", "", Undef),
                    SearchField("age", AuthorProfile, "", "number", Undef)>>,
       query |-> "search" :> Str(<<"a", "b", "c">>)],
      [fields |-> <<SearchField("age", AuthorProfile, "", "number", Undef)>>,
       query |-> "search" :> Str(<<"a", "b", "c">>)],
      [fields |-> <<SearchField("score", <<>>, "equals", "number", Undef)>>,
       query |-> "search" :> Str(<<"5">>)],
      [fields |-> <<SearchField("nick", <<>>, "like", "", Undef)>>,
       query |-> "search" :> Str(<<"a", "b", "c">>)] }

CrossFilter ==
    { [fields |-> <<>>, query |-> <<>>],
      [fields |-> <<FF_age>>, query |-> [age_min |-> Str(<<"5">>), age_max |-> Str(<<"1", "0">>)]],
      [fields |-> <<FF_age>>, query |-> [age |-> Str(<<"5">>), age_min |-> Str(<<"5">>)]],
      [fields |-> <<FF_active, FF_created>>,
       query |-> [active |-> Str(<<"m", "a", "y", "b", "e">>), created |-> Str(<<"s", "o", "o", "n">>)]],
      [fields |-> <<FF_role, FF_age>>,
       query |-> [role |-> Str(<<"r", "o", "o", "t">>), age |-> Str(<<"5">>), age_max |-> Str(<<"1", "0">>)]],
      [fields |-> <<FF_created>>,
       query |-> [created_min |-> Str(<<"2", "0", "2", "0">>), created_max |-> Str(<<"2", "0", "2", "1">>)]],
      [fields |-> <<FF_age, FF_age2>>, query |-> [age |-> Str(<<"5">>)]] }

CrossSort ==
    { [fields |-> <<>>, query |-> <<>>],
      [fields |-> <<SO_name, SO_age>>, query |-> "sort" :> Str(<<"n", "a", "m", "e", ":", "d", "e", "s", "c", ",", "a", "g", "e">>)],
      [fields |-> <<SO_name>>, query |-> "sort" :> Str(<<"z", "i", "p">>)],
      [fields |-> <<SO_name, SO_name2>>, query |-> "sort" :> Str(<<"n", "a", "m", "e">>)],
      [fields |-> <<SO_name>>, query |-> "sort" :> Arr(<<Str(<<"n", "a", "m", "e">>), Str(<<"a", "g", "e">>)>>)] }

ExtraKeySets == {{}, {"page"}, {"foo"}, {"page", "limit"}}

InitCross ==
    \E s \in CrossSearch, f \in CrossFilter, so \in CrossSort, extra \in ExtraKeySets,
       allowed \in {<<>>, <<"page">>, <<"page", "limit">>}, sd \in SoftDeletes,
       strict \in BOOLEAN :
        Start(Options(s.query @@ f.query @@ so.query @@ [k \in extra |-> Str(<<"1">>)],
                      s.fields, f.fields, so.fields, Undef, sd, strict, allowed))

Init == InitSearch \/ InitFilter \/ InitSort \/ InitCross

Spec == Init /\ [][Next]_vars

(***************************************************************************)
(* Properties                                                              *)
(***************************************************************************)
Finished == pc \in {"done", "failed"}

Failed(code) ==
    pc = "failed" /\ error.kind = "QueryBuilderError" /\ error.code = code

MinOf(f) == Get(opts.query, f.key \o "_min")
MaxOf(f) == Get(opts.query, f.key \o "_max")
ExactOf(f) == Get(opts.query, f.key)

\* the key a filter spec writes at the top of the filter tree
TopKey(f) == IF f.model # <<>> THEN Join(split(f.model, ".")[1]) ELSE f.field

\* filter field i is the only one that writes its part of the filter tree
AloneOnField(i) ==
    \A j \in DOMAIN opts.filterFields :
        j # i => TopKey(opts.filterFields[j]) # TopKey(opts.filterFields[i])

\* C1: in a successful call, a filter spec without a relation path whose query
\* supplies both key_min and key_max yields field: {gte: m, lte: M}, m and M
\* being the parsed bounds, whatever the declared type.
C1_RangeBoundsMerge ==
    pc = "done" =>
        \A i \in DOMAIN opts.filterFields :
            LET f == opts.filterFields[i]
            IN (f.model = <<>> /\ MinOf(f) # Undef /\ MaxOf(f) # Undef /\ AloneOnField(i))
                => Get(filters, f.field)
                     = Obj([gte |-> parseFilterValue(MinOf(f), f).val,
                            lte |-> parseFilterValue(MaxOf(f), f).val])

DocumentedCodes ==
    {"INVALID_FILTER_KEY", "INVALID_SEARCH_OPERATOR_USAGE", "INVALID_SEARCH_OPERATOR",
     "INVALID_SEARCH_VALUE", "INVALID_SEARCH_NUMBER", "INVALID_SEARCH_BOOLEAN",
     "INVALID_SEARCH_ENUM", "INVALID_RANGE_USAGE", "INVALID_BOOLEAN", "INVALID_DATE",
     "INVALID_ENUM", "INVALID_SORT_KEY"}

\* C7: a failing call, on a query map of strings and arrays of strings, fails
\* with a QueryBuilderError carrying one of the twelve documented codes.
C7_OnlyDocumentedErrors ==
    pc = "failed" => error.kind = "QueryBuilderError" /\ error.code \in DocumentedCodes

\* the sort items a call asks for, as the specification words them: one per
\* comma-separated segment key[:order], else the default sort, else none
RequestedSort(o) ==
    LET sort == Get(o.query, "sort")
        segs == split(sort.v, ",")
        item(seg) ==
            LET parts == split(seg, ":")
            IN [key |-> Join(trim(parts[1])),
                order |-> IF Len(parts) > 1 /\ trim(parts[2]) = Desc
                          THEN Str(Desc) ELSE Str(Asc)]
    IN IF sort = Undef \/ sort.v = <<>>
       THEN (IF o.defaultSort # Undef THEN <<o.defaultSort>> ELSE <<>>)
       ELSE [i \in 1..Len(segs) |-> item(segs[i])]

SortIsString == Get(opts.query, "sort").t \in {"undefined", "string"}

\* {k1: {k2: ... leaf}}
RECURSIVE NestUnder(_, _)
NestUnder(keys, leaf) ==
    IF keys = <<>> THEN leaf ELSE Obj(Head(keys) :> NestUnder(Tail(keys), leaf))

PathOf(model) ==
    IF model = <<>> THEN <<>>
    ELSE [i \in 1..Len(split(model, ".")) |-> Join(split(model, ".")[i])]

\* the fragment a field spec gives for a value: {field: value} under its path
Entry(spec, value) == NestUnder(PathOf(spec.model), Obj(spec.field :> value))

\* the value under a field spec's path in a tree, Undef when absent
RECURSIVE GetPath(_, _)
GetPath(tree, keys) ==
    IF keys = <<>> THEN tree ELSE GetPath(Get(tree, Head(keys)), Tail(keys))

At(tree, spec) == GetPath(tree, Append(PathOf(spec.model), spec.field))

SortConfigured(k) == \E cfg \in Range(opts.sortFields) : cfg.key = k

\* C5: when the sort phase is reached with query.sort a string or absent, it
\* either fails with INVALID_SORT_KEY (some requested or default key has no
\* SortFieldSpec, strict or not) or gives one orderBy entry per segment, in
\* input order, on the key's configured field and path, "desc" only for the
\* order "desc"; default sort when sort is empty or absent, else nothing.
C5_Sorting ==
    SortIsString =>
        LET items == RequestedSort(opts)
        IN /\ pc \in {"where", "done"} =>
                /\ \A i \in DOMAIN items : SortConfigured(items[i].key)
                /\ Len(orderBy) = Len(items)
                /\ \A i \in DOMAIN items :
                       \E cfg \in Range(opts.sortFields) :
                           /\ cfg.key = items[i].key
                           /\ orderBy[i] = Entry(cfg, items[i].order)
           /\ Failed("INVALID_SORT_KEY") =>
                /\ \E i \in DOMAIN items : ~SortConfigured(items[i].key)
                /\ Range(error.details.allowed) = {cfg.key : cfg \in Range(opts.sortFields)}
           /\ pc = "done" => result.orderBy = orderBy

\* a two-segment sort string resolved in input order, the second under a path
C5_Witness ==
    /\ pc = "done"
    /\ Get(opts.query, "sort") = Str(<<"n", "a", "m", "e", ",", " ", "a", "g", "e", " ", ":", " ", "d", "e", "s", "c", " ">>)
    /\ orderBy = <<Obj("name" :> Str(Asc)),
                   Obj("author" :> Obj("profile" :> Obj("age" :> Str(Desc))))>>

\* the first / the last spec of a list registered under a key
FirstWithKey(specs, k) ==
    specs[CHOOSE i \in DOMAIN specs :
              specs[i].key = k /\ \A j \in DOMAIN specs : j < i => specs[j].key # k]

LastWithKey(specs, k) ==
    specs[CHOOSE i \in DOMAIN specs :
              specs[i].key = k /\ \A j \in DOMAIN specs : j > i => specs[j].key # k]

IsLastWithKey(specs, i) == \A j \in DOMAIN specs : j > i => specs[j].key # specs[i].key

\* the query supplies a value the filter loop uses for this spec's key
Queried(f) ==
    MinOf(f) # Undef \/ MaxOf(f) # Undef \/ (ExactOf(f) # Undef /\ ExactOf(f) # Str(<<>>))

\* C9 as stated: among the specs sharing a key the last registered wins: a sort
\* item resolves to the last SortFieldSpec with its key, and a query value
\* reaches the filter tree only through the last FilterFieldSpec with its key.
C9_LastRegisteredWins ==
    /\ (SortIsString /\ pc \in {"where", "done"}) =>
          LET items == RequestedSort(opts)
          IN \A i \in DOMAIN items :
                 orderBy[i] = Entry(LastWithKey(opts.sortFields, items[i].key), items[i].order)
    /\ pc = "done" =>
          \A i \in DOMAIN opts.filterFields :
              (~IsLastWithKey(opts.filterFields, i) /\ AloneOnField(i))
                  => Get(filters, TopKey(opts.filterFields[i])) = Undef

\* C9, amended: a sort item resolves to the first SortFieldSpec registered
\* under its key, and every FilterFieldSpec registered under a queried key
\* writes its own field into the filter tree, the last one as the others.
C9_FirstSortEveryFilter ==
    /\ (SortIsString /\ pc \in {"where", "done"}) =>
          LET items == RequestedSort(opts)
          IN \A i \in DOMAIN items :
                 orderBy[i] = Entry(FirstWithKey(opts.sortFields, items[i].key), items[i].order)
    /\ pc = "done" =>
          \A i \in DOMAIN opts.filterFields :
              Queried(opts.filterFields[i])
                  => Get(filters, TopKey(opts.filterFields[i])) # Undef

\* both lists hold two specs under one key, and both keys are used
C9_Witness ==
    /\ pc = "done"
    /\ opts.sortFields = <<SO_name, SO_name2>>
    /\ opts.filterFields = <<FF_age, FF_age2>>
    /\ orderBy = <<Obj("name" :> Str(Asc))>>
    /\ filters = Obj([age |-> Num(5), years |-> Num(5)])

\* the error each phase raises on the options, taken alone
PhaseErrors ==
    <<strictKeyValidation(opts), searchPhase(opts).err, filterPhase(opts).err,
      sortPhase(opts).err>>

FirstError(errs) ==
    IF \E i \in DOMAIN errs : errs[i] # NoError
    THEN errs[CHOOSE i \in DOMAIN errs :
                  errs[i] # NoError /\ \A j \in DOMAIN errs : j < i => errs[j] = NoError]
    ELSE NoError

\* the error each filter field raises on the query, taken alone
FieldErrors ==
    [i \in DOMAIN opts.filterFields |->
        filterStep(opts, opts.filterFields[i], EmptyObj).err]

\* C10: the phases run in the order key validation, search, filters, sort,
\* where: a call fails with the error of the earliest phase that has one (and
\* succeeds only when none has), and a failure of the filter phase is that of
\* the first offending filter field in declared order.
C10_PhaseOrder ==
    /\ pc = "failed" => error # NoError /\ error = FirstError(PhaseErrors)
    /\ pc = "done" => FirstError(PhaseErrors) = NoError
    /\ (pc = "failed" /\ PhaseErrors[1] = NoError /\ PhaseErrors[2] = NoError
            /\ PhaseErrors[3] # NoError)
         => error = FirstError(FieldErrors)

\* a call that fails although its search, filters and sort would each fail too
C10_Witness ==
    /\ pc = "failed"
    /\ \A i \in 1..4 : PhaseErrors[i] # NoError
    /\ PhaseErrors[1] # PhaseErrors[2]

\* C6: where of a successful call is {} or {AND: L}, L non-empty and made of,
\* in this order, the soft-delete fragment (when configured), the filter tree
\* (when it has a key) and {OR: P} (when P is non-empty); {} exactly when
\* none applies; never {AND: []} nor an empty OR.
C6_WhereShape ==
    pc = "done" =>
        LET soft == IF opts.softDelete # Undef
                    THEN <<Obj(opts.softDelete.field :> opts.softDelete.value)>>
                    ELSE <<>>
            tree == IF Keys(filters) # {} THEN <<filters>> ELSE <<>>
            group == IF OR # <<>> THEN <<Obj("OR" :> Arr(OR))>> ELSE <<>>
            L == soft \o tree \o group
        IN /\ result.where = (IF L = <<>> THEN EmptyObj ELSE Obj("AND" :> Arr(L)))
           /\ result.where # Obj("AND" :> Arr(<<>>))
           /\ opts.softDelete # Undef => Get(result.where, "AND").v[1] = soft[1]
           /\ result.where = EmptyObj
                <=> (opts.softDelete = Undef /\ Keys(filters) = {} /\ OR = <<>>)
           /\ \A i \in DOMAIN L : Get(L[i], "OR") # Arr(<<>>)

\* soft delete, a filter tree and a search group together
C6_Witness ==
    /\ pc = "done"
    /\ opts.softDelete # Undef
    /\ Len(Get(result.where, "AND").v) = 3
    /\ Get(result.where, "AND").v[1] = Obj("deletedAt" :> Null)
    /\ Get(result.where, "AND").v[2] = filters
    /\ Get(Get(result.where, "AND").v[3], "OR") = Arr(OR)

\* the specification's allow-set of query keys
AllowSet ==
    {"search", "sort"}
        \cup UNION {{f.key, f.key \o "_min", f.key \o "_max"} : f \in Range(opts.filterFields)}
        \cup Range(opts.allowedQueryKeys)

\* the query keys that are not search, sort, a filter key or a range bound
InertKeys ==
    Keys(opts.query)
        \ ({"search", "sort"}
            \cup UNION {{f.key, f.key \o "_min", f.key \o "_max"} :
                            f \in Range(opts.filterFields)})

WithQuery(o, q) == [o EXCEPT !.query = Obj(q)]

\* C2: under strict, a query key outside the allow-set fails the call with
\* INVALID_FILTER_KEY and details.allowed the allow-set; without strict, and
\* for keys inside the allow-set, no key raises it; and the keys that are not
\* search, sort, a filter key or a range bound leave the outcome unchanged.
C2_StrictKeys ==
    /\ (opts.strict /\ Keys(opts.query) \ AllowSet # {} /\ pc # "strict")
          => Failed("INVALID_FILTER_KEY") /\ error.details.allowed = AllowSet
    /\ Failed("INVALID_FILTER_KEY") => opts.strict /\ Keys(opts.query) \ AllowSet # {}
    /\ (Finished /\ ~Failed("INVALID_FILTER_KEY"))
          => [error |-> error, result |-> result]
               = buildPrismaQuery(WithQuery(opts, Without(opts.query.v, InertKeys)))

\* a non-strict call that succeeds on a query with an unknown key
C2_Witness ==
    /\ pc = "done"
    /\ ~opts.strict
    /\ "foo" \in InertKeys
    /\ result.where # EmptyObj

\* filter field i is given by the query an exact value and a range bound
ConflictAt(i) ==
    LET f == opts.filterFields[i]
    IN ExactOf(f) # Undef /\ (MinOf(f) # Undef \/ MaxOf(f) # Undef)

\* the range bounds the query gives filter field i parse to a value
BoundsParse(i) ==
    LET f == opts.filterFields[i]
    IN /\ MinOf(f) # Undef => parseFilterValue(MinOf(f), f).err = NoError
       /\ MaxOf(f) # Undef => parseFilterValue(MaxOf(f), f).err = NoError

\* {gte: m, lte: M} of the bounds the query supplies for a filter spec
BoundsOf(f) ==
    Obj((IF MinOf(f) # Undef THEN "gte" :> parseFilterValue(MinOf(f), f).val ELSE <<>>)
        @@ (IF MaxOf(f) # Undef THEN "lte" :> parseFilterValue(MaxOf(f), f).val ELSE <<>>))

\* C3: a query that supplies the exact key of a configured filter together
\* with key_min or key_max fails under strict with INVALID_RANGE_USAGE (when
\* nothing before that field has failed the call); without strict the field
\* raises nothing and the filter tree holds, on that field, the gte/lte of the
\* parsed bounds and nothing of the exact value.
C3_RangeOverExact ==
    \A i \in DOMAIN opts.filterFields :
        LET f == opts.filterFields[i]
        IN ConflictAt(i) =>
             /\ (opts.strict /\ pc \notin {"strict", "search", "filters"})
                   => pc = "failed"
             /\ (opts.strict /\ pc = "failed" /\ PhaseErrors[1] = NoError
                     /\ PhaseErrors[2] = NoError
                     /\ \A j \in 1..(i - 1) : FieldErrors[j] = NoError)
                   => Failed("INVALID_RANGE_USAGE")
             /\ (~opts.strict /\ BoundsParse(i))
                   => /\ ~Failed("INVALID_RANGE_USAGE")
                      /\ (pc = "failed" /\ error = PhaseErrors[3]
                             /\ PhaseErrors[1] = NoError /\ PhaseErrors[2] = NoError)
                           => \E j \in DOMAIN opts.filterFields :
                                  j # i /\ error = FieldErrors[j]
                      /\ (pc \in {"sort", "where", "done"} /\ AloneOnField(i))
                           => At(filters, f) = BoundsOf(f)

\* the trimmed search string
SearchText == trim(JSString(Get(opts.query, "search")))

\* query.search is non-blank and at least one search field is configured
SearchActive ==
    /\ Get(opts.query, "search") # Undef
    /\ SearchText # <<>>
    /\ Len(opts.searchFields) > 0

Typed(s) == s.type \in {"number", "boolean", "enum"}

\* the typed parse of the search string against a search field fails
ParseFails(s) ==
    CASE s.type = "number" -> Number(Str(SearchText)) = NaN
      [] s.type = "boolean" -> SearchText \notin {True, False, <<"1">>, <<"0">>}
      [] s.type = "enum" ->
            /\ s.enumValues # Undef
            /\ \A i \in DOMAIN s.enumValues.v : s.enumValues.v[i] # Str(SearchText)
      [] OTHER -> FALSE

ReasonOf(s) ==
    CASE s.type = "number" -> "INVALID_SEARCH_NUMBER"
      [] s.type = "boolean" -> "INVALID_SEARCH_BOOLEAN"
      [] s.type = "enum" -> "INVALID_SEARCH_ENUM"

\* the search fields whose parse fails / succeeds, in declared order
SkippedFields == SelectSeq(opts.searchFields, ParseFails)

NotSkipped(s) == ~ParseFails(s)

KeptFields == SelectSeq(opts.searchFields, NotSkipped)

\* the ignored-list entry of a skipped field
IgnoredEntry(s) == [field |-> s.field, value |-> SearchText, reason |-> ReasonOf(s)]

IgnoredList(fields) == [i \in DOMAIN fields |-> IgnoredEntry(fields[i])]

\* the predicate of a field that is not skipped
PredicateOf(s) ==
    LET operator == IF s.operator = "" THEN "contains" ELSE s.operator
    IN CASE s.type = "number" -> Entry(s, Number(Str(SearchText)))
         [] s.type = "boolean" -> Entry(s, Bool(SearchText \in {True, <<"1">>}))
         [] s.type = "enum" -> Entry(s, Str(SearchText))
         [] OTHER ->
               IF operator = "equals" THEN Entry(s, Str(SearchText))
               ELSE Entry(s, Obj((operator :> Str(SearchText)) @@ ("mode" :> Insensitive)))

SearchCodes ==
    {"INVALID_SEARCH_OPERATOR_USAGE", "INVALID_SEARCH_OPERATOR", "INVALID_SEARCH_VALUE",
     "INVALID_SEARCH_NUMBER", "INVALID_SEARCH_BOOLEAN", "INVALID_SEARCH_ENUM"}

SearchFailed == pc = "failed" /\ error.kind = "QueryBuilderError" /\ error.code \in SearchCodes

\* OR-safe search: the all-skipped failure, else the kept predicates and the
\* skipped entries
OrSafeOutcome ==
    IF KeptFields = <<>>
    THEN /\ Failed("INVALID_SEARCH_VALUE")
         /\ error.details.ignoredSearchFields = IgnoredList(opts.searchFields)
    ELSE /\ ~SearchFailed
         /\ OR = [i \in DOMAIN KeptFields |-> PredicateOf(KeptFields[i])]
         /\ ignoredSearchFields = IgnoredList(SkippedFields)
         /\ pc = "done" =>
               result.meta = (IF SkippedFields = <<>> THEN Undef
                              ELSE Obj("ignoredSearchFields" :> Arr(IgnoredList(SkippedFields))))

\* the search phase has run
SearchRan == pc \notin {"strict", "search"} /\ strictKeyValidation(opts) = NoError

\* C4 as stated: with a non-blank search and a search field configured, the
\* fields whose parse fails are skipped and recorded, the others give one
\* predicate each in declared order; the search fails, with
\* INVALID_SEARCH_VALUE listing every field, exactly when every field is
\* skipped, and otherwise meta.ignoredSearchFields holds the skipped fields.
C4_OrSafeSearch == (SearchActive /\ SearchRan) => OrSafeOutcome

\* a search field the strict mode rejects for its operator: a typed field
\* with an explicit operator, or a string field with an unknown operator
OperatorRejected(s) ==
    opts.strict /\ s.operator # ""
        /\ (Typed(s) \/ s.operator \notin {"contains", "startsWith", "endsWith", "equals"})

\* C4, amended: when strict rejects the operator of a search field, the call
\* fails with the operator error of the first such field
\* (INVALID_SEARCH_OPERATOR_USAGE for a typed field, INVALID_SEARCH_OPERATOR
\* for a string field), whatever the parses give; in every other case the
\* search is OR-safe as stated.
C4_OrSafeUnlessOperatorRejected ==
    (SearchActive /\ SearchRan) =>
        IF \E i \in DOMAIN opts.searchFields : OperatorRejected(opts.searchFields[i])
        THEN LET first == SelectSeq(opts.searchFields, OperatorRejected)[1]
             IN Failed(IF Typed(first) THEN "INVALID_SEARCH_OPERATOR_USAGE"
                       ELSE "INVALID_SEARCH_OPERATOR")
        ELSE OrSafeOutcome

\* a strict call in which the numeric field is skipped for "abc", the string
\* field gives the one predicate, and meta lists the skipped field
C4_Witness ==
    /\ pc = "done"
    /\ opts.strict
    /\ SearchActive
    /\ SearchText = <<"a", "b", "c">>
    /\ Len(opts.searchFields) = 2
    /\ OR = <<Obj("name" :> Obj([contains |-> Str(<<"a", "b", "c">>), mode |-> Insensitive]))>>
    /\ result.meta = Obj("ignoredSearchFields" :>
           Arr(<<[field |-> "age", value |-> <<"a", "b", "c">>, reason |-> "INVALID_SEARCH_NUMBER"]>>))

\* the "null" sentinel: a string that is null after trimming and case-folding
IsNullText(chars) == toLowerCase(trim(chars)) = <<"n", "u", "l", "l">>

\* the value a part of an exact value stands for
PartValue(chars, f) ==
    IF IsNullText(chars) THEN Null ELSE parseFilterValue(Str(chars), f).val

\* the filter spec is given a non-empty string exact value and no range bound
ExactOnly(f) ==
    /\ ExactOf(f).t = "string" /\ ExactOf(f).v # <<>>
    /\ MinOf(f) = Undef /\ MaxOf(f) = Undef

\* every value or part of the exact value is the "null" sentinel
AllNull(f) ==
    LET parts == split(ExactOf(f).v, ",")
    IN \A k \in DOMAIN parts : IsNullText(parts[k])

\* C8: once the filters are built, a filter spec with a non-empty string exact
\* value v and no range bound holds {in: [p1..pn]} on its field when v has a
\* comma, pi being the parse of the i-th trimmed part, in order, and parse(v)
\* otherwise; a value or part that is "null" after trimming and case-folding
\* gives null whatever the declared type, never the string, and raises no
\* INVALID_BOOLEAN, INVALID_DATE or INVALID_ENUM.
C8_ExactValueAssembly ==
    /\ pc \in {"sort", "where", "done"} =>
          \A i \in DOMAIN opts.filterFields :
              LET f == opts.filterFields[i]
                  v == ExactOf(f).v
                  parts == split(v, ",")
              IN (ExactOnly(f) /\ AloneOnField(i)) =>
                    /\ At(filters, f) =
                          (IF includes(v, ",")
                           THEN Obj("in" :> Arr([k \in DOMAIN parts |->
                                                    PartValue(trim(parts[k]), f)]))
                           ELSE PartValue(v, f))
                    /\ IsNullText(v) => At(filters, f) = Null
                    /\ includes(v, ",") =>
                          \A k \in DOMAIN parts :
                              IF IsNullText(parts[k])
                              THEN Get(At(filters, f), "in").v[k] = Null
                              ELSE Get(At(filters, f), "in").v[k] # Null
    /\ (\A i \in DOMAIN opts.filterFields :
            LET f == opts.filterFields[i]
            IN Queried(f) => ExactOnly(f) /\ AllNull(f))
          => /\ ~Failed("INVALID_BOOLEAN")
             /\ ~Failed("INVALID_DATE")
             /\ ~Failed("INVALID_ENUM")

\* a date filter given "2020, null": a list of the parsed date and null
C8_Witness ==
    /\ pc = "done"
    /\ Get(opts.query, "created") = Str(<<"2", "0", "2", "0", ",", " ", "n", "u", "l", "l">>)
    /\ filters = Obj("createdAt" :> Obj("in" :> Arr(<<DateVal(2020), Null>>)))

====
